---- MODULE Spec2Model ----
(***************************************************************************)
(* The ASL training-data server (server.py, server-electron.py): an HTTP   *)
(* handler that saves one JSON sample per POST into a per-gesture          *)
(* directory and aggregates every saved sample on GET.                     *)
(*                                                                         *)
(* Strings are sequences of symbols.  The symbols "/", "_", ":", "-" and   *)
(* "." are the characters the code treats specially; every other symbol    *)
(* ("a", "hello", "json", ...) stands for a run of ordinary characters.    *)
(* The file system is a function from absolute paths (sequences of         *)
(* components) to nodes; a path string is resolved component by component  *)
(* as the kernel does it.                                                  *)
(***************************************************************************)
EXTENDS Naturals, Sequences, FiniteSets, TLC

VARIABLES
    fs,        \* the file system: absolute path -> node
    handled,   \* number of requests handled so far
    last,      \* the request handled last, nothing having touched the store since
    resp,      \* the response it got
    okSaves,   \* history: the saves answered 200 since the store was last removed, in order
    pending,   \* SpecServe: requests sent by clients and not yet accepted
    handlers,  \* SpecServe: the handler threads and where each one stands
    done,      \* SpecServe: the requests handled, in order of completion
    torn       \* SpecServe: a load has read a file that a save had open

vars == <<fs, handled, last, resp, okSaves, pending, handlers, done, torn>>

----------------------------------------------------------------------------
(* Bounds of the model *)

MaxRequests == 2
MaxClients == 2

----------------------------------------------------------------------------
(* Strings *)

Str(w) == <<w>>

\* str.replace(old, new) for one-character old and new
Replace(s, old, new) == [i \in 1..Len(s) |-> IF s[i] = old THEN new ELSE s[i]]

\* str.endswith(suffix)
EndsWith(s, suffix) ==
    /\ Len(s) >= Len(suffix)
    /\ SubSeq(s, Len(s) - Len(suffix) + 1, Len(s)) = suffix

Contains(s, c) == \E i \in 1..Len(s) : s[i] = c

DotJson == <<".", "json">>

\* TRAINING_DATA_DIR, a path relative to the working directory
TRAINING_DATA_DIR == <<"training-data">>

\* the default of data.get('gesture', 'unknown')
UnknownGesture == <<"unknown">>

\* os.path.join(a, b)
Join(a, b) ==
    IF Len(b) > 0 /\ b[1] = "/" THEN b
    ELSE IF a = <<>> \/ a[Len(a)] = "/" THEN a \o b
    ELSE a \o <<"/">> \o b

\* the components of a path string: the runs between "/"
RECURSIVE SplitFrom(_, _, _)
SplitFrom(s, comps, cur) ==
    IF s = <<>> THEN Append(comps, cur)
    ELSE IF Head(s) = "/" THEN SplitFrom(Tail(s), Append(comps, cur), <<>>)
    ELSE SplitFrom(Tail(s), comps, Append(cur, Head(s)))

Split(s) == SplitFrom(s, <<>>, <<>>)

IsAbs(s) == Len(s) > 0 /\ s[1] = "/"

----------------------------------------------------------------------------
(* JSON values and documents *)

\* a JSON value: a string (its text in s), a number or an array
JStr(s) == [t |-> "str", s |-> s]
JNum == [t |-> "num", s |-> <<>>]
JArr(w) == [t |-> "arr", s |-> <<w>>]

\* A document is what a request body or a file holds.  form "object" is a
\* JSON object whose fields gesture, timestamp and landmarks are each absent
\* ({}) or present ({value}); "array" is valid JSON that is no object;
\* "garbage" does not parse (an empty or cut-off file included).
Doc(g, t, l) == [form |-> "object", gesture |-> g, timestamp |-> t, landmarks |-> l]
ArrayDoc == [form |-> "array", gesture |-> {}, timestamp |-> {}, landmarks |-> {}]
Garbage == [form |-> "garbage", gesture |-> {}, timestamp |-> {}, landmarks |-> {}]
NoDoc == [form |-> "none", gesture |-> {}, timestamp |-> {}, landmarks |-> {}]

\* dict.get(key, default) on an optional field
Get(field, default) == IF field = {} THEN default ELSE CHOOSE v \in field : TRUE

----------------------------------------------------------------------------
(* The file system *)

\* A file is written in two parts, each at its own offset: data is the
\* document whose first part the file holds and tail the document whose
\* second part it holds.  A file just created or cut holds Garbage twice.
DirNode == [kind |-> "dir", data |-> NoDoc, tail |-> NoDoc]
FileNode(d) == [kind |-> "file", data |-> d, tail |-> d]

\* what json.load makes of a file: the document, when both parts are of the
\* same one
Parse(node) == IF node.data = node.tail THEN node.data ELSE Garbage

\* the working directory of the server process
CWD == << <<"app">> >>

Exists(f, p) == p \in DOMAIN f
IsDir(f, p) == p \in DOMAIN f /\ f[p].kind = "dir"
IsFile(f, p) == p \in DOMAIN f /\ f[p].kind = "file"

Parent(p) == IF p = <<>> THEN p ELSE SubSeq(p, 1, Len(p) - 1)

\* os.listdir(p): the names of p's entries
ListDir(f, p) ==
    {q[Len(q)] : q \in {r \in DOMAIN f : Len(r) = Len(p) + 1 /\ Parent(r) = p}}

Put(f, p, node) == (p :> node) @@ f

Failed == [ok |-> FALSE, path |-> <<>>]
Found(p) == [ok |-> TRUE, path |-> p]

\* One step of path resolution from directory cur over component c.
StepTo(cur, c) ==
    IF c = <<>> \/ c = <<".">> THEN cur
    ELSE IF c = <<".", ".">> THEN Parent(cur)
    ELSE Append(cur, c)

\* Path resolution: every component is looked up in a directory.
RECURSIVE Walk(_, _, _)
Walk(f, cur, comps) ==
    IF comps = <<>> THEN (IF Exists(f, cur) THEN Found(cur) ELSE Failed)
    ELSE IF ~IsDir(f, cur) THEN Failed
    ELSE Walk(f, StepTo(cur, Head(comps)), Tail(comps))

Start(s) == IF IsAbs(s) THEN <<>> ELSE CWD

Resolve(f, s) == Walk(f, Start(s), Split(s))

----------------------------------------------------------------------------
(* Directory creation and file writing *)

MkFailed(f) == [ok |-> FALSE, fs |-> f]
MkDone(f) == [ok |-> TRUE, fs |-> f]

\* os.makedirs(name, exist_ok=True): every missing directory on the way is
\* created; it raises when a component is a file, or when a directory must
\* be created on a read-only volume.
RECURSIVE MkWalk(_, _, _, _)
MkWalk(f, cur, comps, d) ==
    IF ~IsDir(f, cur) THEN MkFailed(f)
    ELSE IF comps = <<>> THEN MkDone(f)
    ELSE LET nxt == StepTo(cur, Head(comps))
         IN  IF Exists(f, nxt) THEN MkWalk(f, nxt, Tail(comps), d)
             ELSE IF d = "readonly" THEN MkFailed(f)
             ELSE MkWalk(Put(f, nxt, DirNode), nxt, Tail(comps), d)

MakeDirs(f, s, d) == MkWalk(f, Start(s), Split(s), d)

OpenFailed(f) == [ok |-> FALSE, fs |-> f, path |-> <<>>]

\* Opening path string s for writing: the directory part must resolve to a
\* directory and the name must not be one; the file is created, or cut to
\* length zero.
CreateOrCut(f, s, d) ==
    LET comps == Split(s)
        name == comps[Len(comps)]
        dir == Walk(f, Start(s), SubSeq(comps, 1, Len(comps) - 1))
        target == Append(dir.path, name)
    IN  IF ~dir.ok \/ ~IsDir(f, dir.path) THEN OpenFailed(f)
        ELSE IF name \in {<<>>, <<".">>, <<".", ".">>} \/ IsDir(f, target) THEN OpenFailed(f)
        ELSE IF d = "readonly" THEN OpenFailed(f)
        ELSE [ok |-> TRUE, fs |-> Put(f, target, FileNode(Garbage)), path |-> target]

\* a handler that never overwrites: an existing file is left alone and the
\* sample goes to a new name
OpenNoClobber(f, s, d) ==
    IF Resolve(f, s).ok THEN CreateOrCut(f, s \o <<".", "1">>, d) ELSE CreateOrCut(f, s, d)

\* open(filepath, 'w')
OpenWrite(f, s, d) == CreateOrCut(f, s, d)

\* json.dump(data, f) and the close at the end of the with block: the text
\* reaches the file in two writes
WriteHead(f, p, body) == Put(f, p, [f[p] EXCEPT !.data = body])
WriteTail(f, p, body) == Put(f, p, [f[p] EXCEPT !.tail = body])

----------------------------------------------------------------------------
(* Responses *)

EmptyMap == [k \in {} |-> <<>>]

\* A response: status 0 means that none was sent.  kind is the shape of the
\* body: "success" {success, file}, "error" {error}, "data" the mapping of
\* the load, "empty" no body.  exc is the step whose exception the message
\* of an error reports.
Response(st, k, e, d, file) == [status |-> st, kind |-> k, exc |-> e, data |-> d, file |-> file]
NoResponse == Response(0, "none", "none", EmptyMap, <<>>)

\* the exception left the handler: socketserver closes the connection and
\* nothing is sent
Dropped(e) == Response(0, "none", e, EmptyMap, <<>>)

----------------------------------------------------------------------------
(* POST /api/training-data *)

\* a handler without the default: a missing gesture is the empty label
GestureNoDefault(body) == Get(body.gesture, JStr(<<>>))

\* data.get('gesture', 'unknown')
EffectiveGesture(body) == Get(body.gesture, JStr(UnknownGesture))

\* data.get('timestamp', datetime.now().isoformat())
EffectiveTimestamp(body, now) == Get(body.timestamp, JStr(now))

\* gesture.replace('/', '_'), the name of the gesture's directory
GestureFolder(gesture) == Replace(gesture, "/", "_")

\* os.path.join(TRAINING_DATA_DIR, gesture.replace('/', '_'))
GestureDir(gesture) == Join(TRAINING_DATA_DIR, GestureFolder(gesture))

\* f"{gesture}_{timestamp.replace(':', '-')}.json"
FileName(gesture, timestamp) ==
    gesture \o <<"_">> \o Replace(timestamp, ":", "-") \o DotJson

\* os.path.join(gesture_dir, filename)
FilePath(gesture, timestamp) == Join(GestureDir(gesture), FileName(gesture, timestamp))

Outcome(e, f, g, t, s, p) ==
    [exc |-> e, fs |-> f, gesture |-> g, timestamp |-> t, file |-> s, path |-> p]

\* The handler's steps in order up to the open, or to the first one that
\* raises.  exc names the step that raised ("none": the file is open); fs is
\* the file system it leaves; file is filepath, the path string of the
\* file, and path the place it resolves to.
OpenSample(f, d, hasLen, body, now) ==
    IF ~hasLen THEN Outcome("read", f, <<>>, <<>>, <<>>, <<>>)
    ELSE IF body.form = "garbage" THEN Outcome("parse", f, <<>>, <<>>, <<>>, <<>>)
    ELSE IF body.form # "object" THEN Outcome("attr", f, <<>>, <<>>, <<>>, <<>>)
    ELSE LET gv == EffectiveGesture(body)
             tv == EffectiveTimestamp(body, now)
             md == MakeDirs(f, GestureDir(gv.s), d)
             file == FilePath(gv.s, tv.s)
             op == OpenWrite(md.fs, file, d)
         IN  IF gv.t # "str" THEN Outcome("attr", f, <<>>, <<>>, <<>>, <<>>)
             ELSE IF ~md.ok THEN Outcome("makedirs", md.fs, gv.s, <<>>, <<>>, <<>>)
             ELSE IF tv.t # "str" THEN Outcome("attr", md.fs, gv.s, <<>>, <<>>, <<>>)
             ELSE IF ~op.ok THEN Outcome("open", md.fs, gv.s, tv.s, file, <<>>)
             ELSE Outcome("none", op.fs, gv.s, tv.s, file, op.path)

\* The whole try block: the open, then json.dump.  On a full volume the
\* dump raises and the file stays as the open left it.
SaveSample(f, d, hasLen, body, now) ==
    LET o == OpenSample(f, d, hasLen, body, now)
    IN  IF o.exc # "none" THEN o
        ELSE IF d = "full" THEN [o EXCEPT !.exc = "write"]
        ELSE [o EXCEPT !.fs = WriteTail(WriteHead(o.fs, o.path, body), o.path, body)]

\* the response of do_POST to an outcome
SaveResponse(o) ==
    IF o.exc = "none" THEN Response(200, "success", "none", EmptyMap, o.file)
    ELSE IF o.exc = "read" THEN Dropped(o.exc)
    ELSE Response(500, "error", o.exc, EmptyMap, <<>>)

----------------------------------------------------------------------------
(* GET /api/training-data/load *)

\* the immediate subdirectories of the root: the entries that pass os.path.isdir
Folders(f) ==
    LET root == Resolve(f, TRAINING_DATA_DIR)
    IN  {n \in ListDir(f, root.path) :
            LET r == Resolve(f, Join(TRAINING_DATA_DIR, n))
            IN  r.ok /\ IsDir(f, r.path)}

\* a scan that reports the folder name as it is
FolderAsName(folder) == folder

\* gesture_folder.replace('_', '/')
GestureName(folder) == Replace(folder, "_", "/")

\* the entries of a gesture folder whose landmarks the scan appends: the
\* name ends in .json, the file opens and parses, and data is an object
\* with a landmarks field; everything else is skipped
Samples(f, folder) ==
    LET dir == Resolve(f, Join(TRAINING_DATA_DIR, folder)).path
    IN  {n \in ListDir(f, dir) :
            /\ EndsWith(n, DotJson)
            /\ LET r == Resolve(f, Join(Join(TRAINING_DATA_DIR, folder), n))
               IN  /\ r.ok
                   /\ IsFile(f, r.path)
                   /\ Parse(f[r.path]).form = "object"
                   /\ Parse(f[r.path]).landmarks # {}}

LandmarksOf(f, folder, n) ==
    LET r == Resolve(f, Join(Join(TRAINING_DATA_DIR, folder), n))
    IN  CHOOSE v \in Parse(f[r.path]).landmarks : TRUE

\* the orders in which os.listdir may enumerate a set of names
Orders(S) == {o \in [1..Cardinality(S) -> S] : \A i, j \in DOMAIN o : o[i] = o[j] => i = j}

\* Every mapping the scan can build: one key per folder, holding the
\* landmarks of the folder's samples in the order os.listdir gave them
\* (an order the platform chooses).
LoadAll(f) ==
    IF ~Resolve(f, TRAINING_DATA_DIR).ok THEN {EmptyMap}
    ELSE LET F == Folders(f)
             K == {GestureName(n) : n \in F}
             FolderOf(k) == CHOOSE n \in F : GestureName(n) = k
             Enum == {e \in [F -> UNION {Orders(Samples(f, n)) : n \in F}] :
                          \A n \in F : e[n] \in Orders(Samples(f, n))}
         IN  {[k \in K |-> [i \in DOMAIN e[FolderOf(k)] |->
                               LandmarksOf(f, FolderOf(k), e[FolderOf(k)][i])]] : e \in Enum}

\* a scan without the os.path.exists test: os.listdir raises on a missing root
RaisesWithoutRoot(f) ==
    LET root == Resolve(f, TRAINING_DATA_DIR)
    IN  ~root.ok \/ ~IsDir(f, root.path)

\* a scan without the inner try: the first file that does not parse ends it
RaisesOnCorruptFile(f) ==
    LET root == Resolve(f, TRAINING_DATA_DIR)
    IN  /\ root.ok
        /\ \/ ~IsDir(f, root.path)
           \/ \E n \in Folders(f) :
                  \E e \in ListDir(f, Append(root.path, n)) :
                      /\ EndsWith(e, DotJson)
                      /\ LET p == Append(Append(root.path, n), e)
                         IN  IsDir(f, p) \/ Parse(f[p]).form # "object"

\* os.listdir(TRAINING_DATA_DIR) raises when the root exists and is no
\* directory; the outer except answers 500
LoadRaises(f) ==
    LET root == Resolve(f, TRAINING_DATA_DIR)
    IN  root.ok /\ ~IsDir(f, root.path)

----------------------------------------------------------------------------
(* Requests *)

ApiSave == "/api/training-data"
ApiLoad == "/api/training-data/load"
OtherPath == "/index.html"

\* gesture labels a client sends
Labels ==
    { <<"a">>, <<"hello", "/", "world">>, <<"hello", "_", "world">>, <<".", ".">> }

\* timestamps a client sends
Timestamps ==
    { <<"1", ":", "2">>, <<"1", "-", "2">>, <<"1", "/", "2">> }

\* datetime.now().isoformat() at the n-th request: the clock advances from
\* one request to the next, and its reading contains ":"
Now(n) == <<"9", ":", ToString(n)>>
Epoch == Now(0)

\* landmark payloads, opaque to the server
Landmarks == { JArr("L1"), JArr("L2") }

Optional(S) == {{}} \cup {{x} : x \in S}

\* bodies that are JSON objects with string fields
Samples0 ==
    { Doc(g, t, {l}) : g \in Optional({JStr(x) : x \in Labels}),
                       t \in Optional({JStr(x) : x \in Timestamps}),
                       l \in Landmarks }
    \cup { Doc({JStr(<<"a">>)}, {JStr(<<"1", ":", "2">>)}, {}) }

\* bodies the handler cannot use: not JSON, JSON but no object, a gesture
\* or a timestamp that is no string
BadBodies ==
    { Garbage, ArrayDoc,
      Doc({JNum}, {JStr(<<"1", ":", "2">>)}, {JArr("L1")}),
      Doc({JStr(<<"a">>)}, {JNum}, {JArr("L1")}) }

Bodies == Samples0 \cup BadBodies

\* A request: hasLen tells whether it carries a Content-Length header;
\* volume is what the volume allows while the request is handled.
Request(m, p, h, b, d) == [method |-> m, path |-> p, hasLen |-> h, body |-> b, volume |-> d]
NoRequest == Request("none", "", FALSE, NoDoc, "ok")

\* every response the load endpoint can give on file system f
LoadResponses(f) ==
    IF LoadRaises(f) THEN {Response(500, "error", "scan", EmptyMap, <<>>)}
    ELSE {Response(200, "data", "none", r, <<>>) : r \in LoadAll(f)}

\* the record of a save answered 200
Saved(o, b) == [gesture |-> o.gesture, timestamp |-> o.timestamp, file |-> o.file, body |-> b]

----------------------------------------------------------------------------
(* Initial state: the store the process finds, after __main__ has run       *)
(* os.makedirs(TRAINING_DATA_DIR, exist_ok=True)                            *)

Name(w, ext) == <<w, ".", ext>>

\* the install directory without a store
Bare ==
    LET P == { <<>>, CWD, CWD \o << Name("index", "html") >> }
    IN  [p \in P |-> IF Len(p) = 2 THEN FileNode(Garbage) ELSE DirNode]

\* a store left by earlier runs and by the user: gesture folder a with a
\* sample, a sample without landmarks, a cut-off file, a JSON array, a file
\* of another extension and a directory named like a sample; and a plain
\* file next to the gesture folders
Legacy ==
    LET root == CWD \o <<TRAINING_DATA_DIR>>
        a == root \o << <<"a">> >>
        f1 == Put(Bare, root, DirNode)
        f2 == Put(f1, a, DirNode)
        f3 == Put(f2, a \o << <<"a", "_", "0", ".", "json">> >>,
                  FileNode(Doc({JStr(<<"a">>)}, {JStr(<<"0">>)}, {JArr("L0")})))
        f4 == Put(f3, a \o << Name("nolm", "json") >>,
                  FileNode(Doc({JStr(<<"a">>)}, {JStr(<<"0">>)}, {})))
        f5 == Put(f4, a \o << Name("cut", "json") >>, FileNode(Garbage))
        f6 == Put(f5, a \o << Name("arr", "json") >>, FileNode(ArrayDoc))
        f7 == Put(f6, a \o << Name("notes", "txt") >>,
                  FileNode(Doc({JStr(<<"a">>)}, {}, {JArr("L9")})))
        f8 == Put(f7, a \o << Name("dir", "json") >>, DirNode)
    IN  Put(f8, root \o << Name("readme", "md") >>, FileNode(Garbage))

PreStores == {Bare, Legacy}

Init ==
    /\ fs \in {MakeDirs(f, TRAINING_DATA_DIR, "ok").fs : f \in PreStores}
    /\ handled = 0
    /\ last = NoRequest
    /\ resp = NoResponse
    /\ okSaves = <<>>
    /\ pending = {}
    /\ handlers = EmptyMap
    /\ done = <<>>
    /\ torn = FALSE

----------------------------------------------------------------------------
(* The handlers, each handled to completion *)

serveVars == <<pending, handlers, done, torn>>

\* do_POST; d is what the volume allows while the request is handled and n
\* is the clock's reading
do_POST(p, h, b, n, d) ==
    /\ handled < MaxRequests
    /\ handled' = handled + 1
    /\ last' = Request("POST", p, h, b, d)
    /\ IF p # ApiSave
       THEN /\ resp' = Response(404, "empty", "none", EmptyMap, <<>>)
            /\ UNCHANGED <<fs, okSaves>>
       ELSE \E o \in {SaveSample(fs, d, h, b, n)} :
                /\ fs' = o.fs
                /\ resp' = SaveResponse(o)
                /\ okSaves' = IF o.exc = "none" THEN Append(okSaves, Saved(o, b)) ELSE okSaves
    /\ UNCHANGED serveVars

\* do_GET on the load endpoint
LoadData ==
    /\ handled < MaxRequests
    /\ handled' = handled + 1
    /\ last' = Request("GET", ApiLoad, FALSE, NoDoc, "ok")
    /\ resp' \in LoadResponses(fs)
    /\ UNCHANGED <<fs, okSaves, serveVars>>

\* do_GET on any other path: the file is served from the working directory
StaticGet ==
    /\ handled < MaxRequests
    /\ handled' = handled + 1
    /\ last' = Request("GET", OtherPath, FALSE, NoDoc, "ok")
    /\ resp' = IF IsFile(fs, CWD \o << Name("index", "html") >>)
               THEN Response(200, "static", "none", EmptyMap, <<>>)
               ELSE Response(404, "static", "none", EmptyMap, <<>>)
    /\ UNCHANGED <<fs, okSaves, serveVars>>

\* do_OPTIONS
do_OPTIONS ==
    /\ handled < MaxRequests
    /\ handled' = handled + 1
    /\ last' = Request("OPTIONS", ApiSave, FALSE, NoDoc, "ok")
    /\ resp' = Response(200, "empty", "none", EmptyMap, <<>>)
    /\ UNCHANGED <<fs, okSaves, serveVars>>

----------------------------------------------------------------------------
(* The environment *)

\* what the volume allows while a request is handled: everything, no
\* change at all (mounted read-only, or no permission), or no new data
\* (the disk is full: a file can be created or cut, not filled)
Faults == {"ok", "readonly", "full"}

\* the user deletes the training-data directory and all it holds
RemoveStore ==
    LET root == CWD \o <<TRAINING_DATA_DIR>>
        Keep == {p \in DOMAIN fs : ~(Len(p) >= Len(root) /\ SubSeq(p, 1, Len(root)) = root)}
    IN  /\ Exists(fs, root)
        /\ fs' = [p \in Keep |-> fs[p]]
        /\ okSaves' = <<>>
        /\ last' = NoRequest
        /\ resp' = NoResponse
        /\ UNCHANGED <<handled, serveVars>>

Next ==
    \/ \E b \in Bodies, d \in Faults : do_POST(ApiSave, TRUE, b, Now(handled), d)
    \/ do_POST(ApiSave, FALSE, NoDoc, Now(handled), "ok")
    \/ do_POST(OtherPath, TRUE, Garbage, Now(handled), "ok")
    \/ LoadData
    \/ StaticGet
    \/ do_OPTIONS
    \/ RemoveStore

Spec == Init /\ [][Next]_vars

----------------------------------------------------------------------------
(* The server loop: clients send requests in any order; the server accepts  *)
(* one and runs its handler, whose file operations are separate steps       *)

Clients == 1..MaxClients

\* what the clients send: two samples for the same file, a third one whose
\* timestamp gives the same file name, a sample of another gesture, a load
ServeRequests ==
    { Request("POST", ApiSave, TRUE, Doc({JStr(<<"a">>)}, {JStr(<<"1", ":", "2">>)}, {l}), "ok") :
          l \in Landmarks }
    \cup { Request("POST", ApiSave, TRUE,
                   Doc({JStr(<<"a">>)}, {JStr(<<"1", "-", "2">>)}, {}), "ok"),
           Request("POST", ApiSave, TRUE,
                   Doc({JStr(<<"hello", "_", "world">>)}, {JStr(<<"1", ":", "2">>)},
                       {JArr("L1")}), "ok"),
           Request("GET", ApiLoad, FALSE, NoDoc, "ok") }

Handler(r, pc, path, rsp) == [req |-> r, pc |-> pc, path |-> path, resp |-> rsp]

Without(h, c) == [x \in DOMAIN h \ {c} |-> h[x]]

\* a handler holds a sample file open for writing
Writing(h) == h.pc \in {"opened", "half"}

\* a server with a thread per connection: it accepts whenever a request waits
AlwaysFree(h) == TRUE

\* socketserver.TCPServer: serve_forever accepts the next connection when
\* the handler of the one before has returned
ServerFree(h) == DOMAIN h = {}

\* a client sends its request
Send(c, r) ==
    /\ \A m \in pending : m.client # c
    /\ c \notin DOMAIN handlers
    /\ \A i \in DOMAIN done : done[i].client # c
    /\ pending' = pending \cup {[client |-> c, req |-> r]}
    /\ UNCHANGED <<fs, handled, last, resp, okSaves, handlers, done, torn>>

\* the server accepts a waiting request and starts its handler
Accept(m) ==
    /\ m \in pending
    /\ ServerFree(handlers)
    /\ pending' = pending \ {m}
    /\ handlers' = (m.client :> Handler(m.req, "start", <<>>, NoResponse)) @@ handlers
    /\ UNCHANGED <<fs, handled, last, resp, okSaves, done, torn>>

\* do_POST up to open(filepath, 'w')
SaveOpen(c) ==
    /\ c \in DOMAIN handlers
    /\ handlers[c].pc = "start" /\ handlers[c].req.method = "POST"
    /\ \E o \in {OpenSample(fs, "ok", handlers[c].req.hasLen, handlers[c].req.body, Epoch)} :
           /\ fs' = o.fs
           /\ handlers' = [handlers EXCEPT ![c] =
                  IF o.exc = "none" THEN Handler(@.req, "opened", o.path, SaveResponse(o))
                  ELSE Handler(@.req, "respond", <<>>, SaveResponse(o))]
    /\ UNCHANGED <<handled, last, resp, okSaves, pending, done, torn>>

\* json.dump: the first write
SaveWriteHead(c) ==
    /\ c \in DOMAIN handlers
    /\ handlers[c].pc = "opened"
    /\ fs' = WriteHead(fs, handlers[c].path, handlers[c].req.body)
    /\ handlers' = [handlers EXCEPT ![c].pc = "half"]
    /\ UNCHANGED <<handled, last, resp, okSaves, pending, done, torn>>

\* json.dump: the second write, and the close
SaveWriteTail(c) ==
    /\ c \in DOMAIN handlers
    /\ handlers[c].pc = "half"
    /\ fs' = WriteTail(fs, handlers[c].path, handlers[c].req.body)
    /\ handlers' = [handlers EXCEPT ![c].pc = "respond"]
    /\ UNCHANGED <<handled, last, resp, okSaves, pending, done, torn>>

\* do_GET on the load endpoint: the scan
LoadScan(c) ==
    /\ c \in DOMAIN handlers
    /\ handlers[c].pc = "start" /\ handlers[c].req.method = "GET"
    /\ \E a \in LoadResponses(fs) :
           handlers' = [handlers EXCEPT ![c] = Handler(@.req, "respond", <<>>, a)]
    /\ torn' = (torn \/ \E x \in DOMAIN handlers : Writing(handlers[x]))
    /\ UNCHANGED <<fs, handled, last, resp, okSaves, pending, done>>

\* the handler sends its response and returns
Respond(c) ==
    /\ c \in DOMAIN handlers
    /\ handlers[c].pc = "respond"
    /\ done' = Append(done, [client |-> c, req |-> handlers[c].req, resp |-> handlers[c].resp])
    /\ handlers' = Without(handlers, c)
    /\ UNCHANGED <<fs, handled, last, resp, okSaves, pending, torn>>

ServeNext ==
    \/ \E c \in Clients, r \in ServeRequests : Send(c, r)
    \/ \E m \in pending : Accept(m)
    \/ \E c \in Clients : SaveOpen(c)
    \/ \E c \in Clients : SaveWriteHead(c)
    \/ \E c \in Clients : SaveWriteTail(c)
    \/ \E c \in Clients : LoadScan(c)
    \/ \E c \in Clients : Respond(c)

SpecServe == Init /\ [][ServeNext]_vars

----------------------------------------------------------------------------
(* Vocabulary of the properties *)

\* the training-data root and its immediate subdirectories
RootPath == CWD \o <<TRAINING_DATA_DIR>>
SubDirs == {p \in DOMAIN fs : Len(p) = Len(RootPath) + 1 /\ Parent(p) = RootPath /\ IsDir(fs, p)}

Range(q) == {q[i] : i \in DOMAIN q}
Base(p) == p[Len(p)]

\* the request handled last was a save / a save answered 200 / a load
SaveHandled == last.method = "POST" /\ last.path = ApiSave
SaveOk == SaveHandled /\ resp.status = 200
LoadHandled == last.method = "GET" /\ last.path = ApiLoad

\* the record of the save handled last, when it was answered 200
LastSaved == okSaves[Len(okSaves)]

\* a load handled now answers 200 and returns landmarks v under key k
LoadReturns(k, v) ==
    \A a \in LoadResponses(fs) :
        a.status = 200 /\ k \in DOMAIN a.data /\ v \in Range(a.data[k])

\* path p is a file with a .json name holding an object with landmarks
WellFormed(p) ==
    /\ IsFile(fs, p)
    /\ EndsWith(Base(p), DotJson)
    /\ Parse(fs[p]).form = "object"
    /\ Parse(fs[p]).landmarks # {}

\* the entries of directory p
Entries(f, p) == {q \in DOMAIN f : Len(q) = Len(p) + 1 /\ Parent(q) = p}
FilesIn(f, p) == {q \in Entries(f, p) : IsFile(f, q)}

----------------------------------------------------------------------------
(* The claims *)

\* C1 (as the claim states it): after a save answered 200 whose body has a
\* string gesture g with neither "/" nor "_", a timestamp and landmarks L,
\* every load answers 200 with key g present and L in its sequence.
C1_RoundTrip ==
    (/\ SaveOk
     /\ last.body.gesture # {} /\ last.body.timestamp # {} /\ last.body.landmarks # {}
     /\ ~Contains(LastSaved.gesture, "/") /\ ~Contains(LastSaved.gesture, "_"))
    => LoadReturns(LastSaved.gesture, Get(last.body.landmarks, JNum))

\* C2 (as the claim states it): a save of a sample whose label contains "/",
\* handled while the volume works, is answered 200, its file is inside the
\* directory named by the label with "/" replaced by "_", and every load
\* returns its landmarks under the label itself.
C2_SlashLabelSaved ==
    (/\ SaveHandled /\ last.hasLen /\ last.volume = "ok"
     /\ last.body.form = "object"
     /\ last.body.gesture = {JStr(<<"hello", "/", "world">>)}
     /\ last.body.timestamp = {}
     /\ last.body.landmarks # {})
    => /\ resp.status = 200
       /\ Resolve(fs, resp.file).ok
       /\ Parent(Resolve(fs, resp.file).path) = Append(RootPath, <<"hello", "_", "world">>)
       /\ LoadReturns(<<"hello", "/", "world">>, Get(last.body.landmarks, JNum))

\* C3 (as the claim states it): when a save is answered 200 and an earlier
\* save answered 200 had the same gesture and another timestamp, the two
\* samples are two files, each holding its document, and every load returns
\* both landmarks under the gesture.
C3_DistinctTimestampsKept ==
    SaveOk =>
        \A i \in 1..(Len(okSaves) - 1) :
            (/\ okSaves[i].gesture = LastSaved.gesture
             /\ okSaves[i].timestamp # LastSaved.timestamp
             /\ okSaves[i].body.landmarks # {} /\ LastSaved.body.landmarks # {})
            => LET p1 == Resolve(fs, okSaves[i].file)
                   p2 == Resolve(fs, LastSaved.file)
               IN  /\ p1.ok /\ p2.ok /\ p1.path # p2.path
                   /\ Parse(fs[p1.path]) = okSaves[i].body
                   /\ Parse(fs[p2.path]) = LastSaved.body
                   /\ LoadReturns(LastSaved.gesture, Get(okSaves[i].body.landmarks, JNum))
                   /\ LoadReturns(LastSaved.gesture, Get(LastSaved.body.landmarks, JNum))

\* the step handles a save and answers 200
SaveOkStep ==
    /\ handled' = handled + 1
    /\ last'.method = "POST" /\ last'.path = ApiSave
    /\ resp'.status = 200

\* C4: a save answered 200 with the gesture and the timestamp of an earlier
\* save answered 200 goes to the file of the earlier one; afterwards that
\* file holds the whole document of the later save, and the gesture
\* directory holds the files it held before, no more.
C4_LastWriteWins ==
    [][SaveOkStep =>
          \A i \in DOMAIN okSaves :
              LET s1 == okSaves[i]
                  s2 == okSaves'[Len(okSaves')]
                  dir == Resolve(fs', GestureDir(s2.gesture)).path
              IN  (/\ s1.gesture = s2.gesture
                   /\ s1.body.timestamp # {}
                   /\ s1.body.timestamp = s2.body.timestamp)
                  => /\ Resolve(fs, s1.file).ok
                     /\ Resolve(fs', s2.file) = Resolve(fs, s1.file)
                     /\ Parse(fs'[Resolve(fs', s2.file).path]) = last'.body
                     /\ FilesIn(fs', dir) = FilesIn(fs, dir)]_vars

\* C4 happens: a save answered 200 replaced the document of an earlier save
\* of the same gesture and timestamp by another document
C4_Witness ==
    /\ SaveOk
    /\ \E i \in 1..(Len(okSaves) - 1) :
           /\ okSaves[i].gesture = LastSaved.gesture
           /\ okSaves[i].body.timestamp # {}
           /\ okSaves[i].body.timestamp = LastSaved.body.timestamp
           /\ okSaves[i].body # LastSaved.body
           /\ Parse(fs[Resolve(fs, LastSaved.file).path]) = LastSaved.body

\* C5: a load is answered 200 whatever the store holds; under the key of
\* every gesture directory it returns the landmarks of every well-formed
\* .json file of the directory, and nothing else: one entry per well-formed
\* file, none for a file that does not parse.
C5_CorruptFileSkipped ==
    LoadHandled =>
        /\ resp.status = 200
        /\ \A d \in SubDirs :
               LET k == Replace(Base(d), "_", "/")
                   good == {p \in Entries(fs, d) : WellFormed(p)}
               IN  /\ k \in DOMAIN resp.data
                   /\ \A p \in good : Get(Parse(fs[p]).landmarks, JNum) \in Range(resp.data[k])
                   /\ Len(resp.data[k]) = Cardinality(good)

\* C5 happens: a load was handled while a gesture directory held a .json
\* file that does not parse next to a well-formed one
C5_Witness ==
    /\ LoadHandled
    /\ \E d \in SubDirs :
           /\ \E p \in Entries(fs, d) :
                  IsFile(fs, p) /\ EndsWith(Base(p), DotJson) /\ Parse(fs[p]).form = "garbage"
           /\ \E p \in Entries(fs, d) :
                  WellFormed(p) /\ Len(resp.data[Replace(Base(d), "_", "/")]) > 0

\* C6 (as the claim states it): whenever the handling of a save raised, at
\* whatever step, the response is 500 with an error body.
C6_EveryFailureAnswered500 ==
    (SaveHandled /\ resp.exc # "none") => (resp.status = 500 /\ resp.kind = "error")

\* the step handles a load
LoadStep ==
    /\ handled' = handled + 1
    /\ last'.method = "GET" /\ last'.path = ApiLoad

\* C7: a load handled while the root does not exist is answered 200 with
\* the empty mapping, and the root still does not exist afterwards.
C7_MissingRootIsEmpty ==
    [][(LoadStep /\ ~Exists(fs, RootPath)) =>
          (/\ resp'.status = 200
           /\ resp'.kind = "data"
           /\ resp'.data = EmptyMap
           /\ ~Exists(fs', RootPath))]_vars

\* C7 happens: a load has been handled and answered while there is no root
C7_Witness ==
    LoadHandled /\ ~Exists(fs, RootPath) /\ resp.status = 200 /\ resp.data = EmptyMap

DoneSaves == {i \in DOMAIN done : done[i].req.method = "POST" /\ done[i].resp.status = 200}

\* C9: at most one handler runs at a time; no load has read the store while
\* a sample file was open for writing; and once the server is idle, the file
\* of every save answered 200 holds the whole document of the save to that
\* file that completed last.
C9_OneRequestAtATime ==
    /\ Cardinality(DOMAIN handlers) <= 1
    /\ ~torn
    /\ (DOMAIN handlers = {}) =>
           \A i \in DoneSaves :
               LET same == {j \in DoneSaves : done[j].resp.file = done[i].resp.file}
                   lastOne == CHOOSE j \in same : \A k \in same : k <= j
                   p == Resolve(fs, done[i].resp.file)
               IN  p.ok /\ IsFile(fs, p.path) /\ Parse(fs[p.path]) = done[lastOne].req.body

\* C9 happens: two clients have saved different documents to the same file,
\* both were answered 200, and the file holds the document of the later one
C9_Witness ==
    /\ DOMAIN handlers = {}
    /\ \E i, j \in DoneSaves :
           /\ i < j
           /\ done[i].resp.file = done[j].resp.file
           /\ done[i].req.body # done[j].req.body
           /\ Parse(fs[Resolve(fs, done[j].resp.file).path]) = done[j].req.body

====
